---------------------------- MODULE Spec2Model ----------------------------
(***************************************************************************)
(* Email-to-order extraction pipeline of the Smart Order Intake System     *)
(* (app/services/email_processor.py, app/models/base.py).                  *)
(*                                                                         *)
(* Python strings are sequences of one-character strings, so that every    *)
(* string operation of the code (lower, strip, splitlines, the regular     *)
(* expressions, difflib's similarity ratio) is computed character by       *)
(* character.  Floats that the code only ever sets to 0.0, 0.5 or 1.0 are  *)
(* kept in tenths (0, 5, 10); prices are kept in cents.                    *)
(***************************************************************************)
EXTENDS Integers, Sequences, FiniteSets, TLC

VARIABLES source, call, processor, ret, history

vars == <<source, call, processor, ret, history>>

(***************************************************************************)
(* Python values that a parameter typed Dict may hold at run time.         *)
(***************************************************************************)
None == [type |-> "NoneType"]

PyDict(d) == [type |-> "dict", d |-> d]

PyStr(s) == [type |-> "str", s |-> s]

\* datetime(y, mo, d, h, mi, sec)
DateTime(y, mo, d, h, mi, sec) ==
    [type |-> "datetime",
     dt |-> [year |-> y, month |-> mo, day |-> d, hour |-> h, minute |-> mi, second |-> sec]]

Ok(v) == [raised |-> "", val |-> v]

Raise(e) == [raised |-> e]

(***************************************************************************)
(* Characters.                                                             *)
(***************************************************************************)
UpperChars == <<"A","B","C","D","E","F","G","H","I","J","K","L","M","N","O","P","Q","R","S","T","U","V","W","X","Y","Z">>

LowerChars == <<"a","b","c","d","e","f","g","h","i","j","k","l","m","n","o","p","q","r","s","t","u","v","w","x","y","z">>

\* The characters of the texts, in code-point order.
AsciiOrder == <<"\n","\r"," ","!","#","$","%","&","'","(",")","*","+",",","-",".","/","0","1","2","3","4","5","6","7","8","9",":",";","<","=",">","?","@","A","B","C","D","E","F","G","H","I","J","K","L","M","N","O","P","Q","R","S","T","U","V","W","X","Y","Z","[","]","^","_","a","b","c","d","e","f","g","h","i","j","k","l","m","n","o","p","q","r","s","t","u","v","w","x","y","z">>

Digits == <<"0","1","2","3","4","5","6","7","8","9">>

IndexIn(c, seq) == CHOOSE i \in 1..Len(seq) : seq[i] = c

IsIn(c, seq) == \E i \in 1..Len(seq) : seq[i] = c

ord(c) == IndexIn(c, AsciiOrder)

isdigit(c) == IsIn(c, Digits)

\* \s of the re module and the default of str.strip, on this alphabet
isspace(c) == c \in {" ", "\n", "\r", "\t"}

lowerchar(c) == IF IsIn(c, UpperChars) THEN LowerChars[IndexIn(c, UpperChars)] ELSE c

lower(s) == [i \in 1..Len(s) |-> lowerchar(s[i])]

(***************************************************************************)
(* str helpers                                                             *)
(***************************************************************************)
\* s[i:] with a 1-based i
From(s, i) == SubSeq(s, i, Len(s))

\* sub occurs in s at position i
MatchAt(s, sub, i) == /\ i + Len(sub) - 1 <= Len(s)
                      /\ \A k \in 1..Len(sub) : s[i + k - 1] = sub[k]

\* Python's `sub in s`
contains(s, sub) == \E i \in 1..(Len(s) + 1) : MatchAt(s, sub, i)

\* s.find(sub) as a 1-based position, 0 when absent
find(s, sub) == IF contains(s, sub)
                THEN CHOOSE i \in 1..(Len(s) + 1) :
                        /\ MatchAt(s, sub, i)
                        /\ \A k \in 1..(i - 1) : ~MatchAt(s, sub, k)
                ELSE 0

\* s.strip(chars): chars is a set of characters
stripchars(s, chars) ==
    LET keep == {i \in 1..Len(s) : s[i] \notin chars}
    IN  IF keep = {} THEN <<>>
        ELSE LET lo == CHOOSE i \in keep : \A k \in keep : i <= k
                 hi == CHOOSE i \in keep : \A k \in keep : i >= k
             IN  SubSeq(s, lo, hi)

\* s.strip()
strip(s) == stripchars(s, {" ", "\n", "\r", "\t"})

\* tuple comparison of strings: a < b in code-point order
RECURSIVE strless(_, _)
strless(a, b) ==
    IF b = <<>> THEN FALSE
    ELSE IF a = <<>> THEN TRUE
    ELSE IF a[1] # b[1] THEN ord(a[1]) < ord(b[1])
    ELSE strless(Tail(a), Tail(b))

\* the positions where a line break starts: \n, \r, and \r\n as one break
line_breaks(text) ==
    {i \in 1..Len(text) : \/ text[i] = "\r"
                          \/ text[i] = "\n" /\ ~(i > 1 /\ text[i - 1] = "\r")}

\* text.splitlines(): the pieces between the breaks; no empty last line
splitlines(text) ==
    LET lines_of(breaks) ==
            LET nth(k) == CHOOSE b \in breaks : Cardinality({c \in breaks : c < b}) = k - 1
                break_end(b) == IF text[b] = "\r" /\ b < Len(text) /\ text[b + 1] = "\n"
                                THEN b + 1 ELSE b
                start(k) == IF k = 1 THEN 1 ELSE break_end(nth(k - 1)) + 1
                n == Cardinality(breaks)
            IN  [k \in 1..(IF start(n + 1) <= Len(text) THEN n + 1 ELSE n) |->
                    SubSeq(text, start(k), IF k <= n THEN nth(k) - 1 ELSE Len(text))]
    IN  lines_of(line_breaks(text))

\* line.split(':', 1)[-1]: the text after the first colon, the whole line without one
after_first_colon(line) ==
    LET p == find(line, <<":">>)
    IN  IF p = 0 THEN line ELSE From(line, p + 1)

\* re.search(r'(\d+)', line): the 1-based start of the first digit run, 0 without one
first_digit(line) ==
    IF \E i \in 1..Len(line) : isdigit(line[i])
    THEN CHOOSE i \in 1..Len(line) :
            /\ isdigit(line[i])
            /\ \A k \in 1..(i - 1) : ~isdigit(line[k])
    ELSE 0

\* the end of the digit run that starts at i (\d+ is greedy)
digit_run_end(line, i) ==
    LET ends == {j \in i..Len(line) : \A k \in i..j : isdigit(line[k])}
    IN  CHOOSE j \in ends : \A k \in ends : j >= k

\* int(s) of a run of decimal digits
RECURSIVE int(_)
int(s) ==
    IF s = <<>> THEN 0
    ELSE 10 * int(SubSeq(s, 1, Len(s) - 1)) + (IndexIn(s[Len(s)], Digits) - 1)

\* re.sub(r'(\d+)', '', line)
remove_digits(s) ==
    LET not_digit(c) == ~isdigit(c)
    IN  SelectSeq(s, not_digit)

(***************************************************************************)
(* difflib.SequenceMatcher without junk (autojunk only acts on sequences   *)
(* of 200 elements or more), ranges 1-based and inclusive.                 *)
(***************************************************************************)
RECURSIVE MatchLen(_, _, _, _, _, _)
MatchLen(a, b, i, j, ahi, bhi) ==
    IF i > ahi \/ j > bhi THEN 0
    ELSE IF a[i] # b[j] THEN 0
    ELSE 1 + MatchLen(a, b, i + 1, j + 1, ahi, bhi)

\* find_longest_match: the longest block a[i..i+k-1] = b[j..j+k-1] of the two
\* ranges; of the longest, the one that starts earliest in a, and of those the
\* one that starts earliest in b; <<alo, blo, 0>> when no element matches.
\* A longest block cannot be extended to the left, so only such starts count.
find_longest_match(a, b, alo, ahi, blo, bhi) ==
    LET block(p, size) == <<p[1], p[2], size[p]>>
        longest(starts, size) ==
            IF starts = {} THEN <<alo, blo, 0>>
            ELSE block(CHOOSE p \in starts :
                          \A q \in starts :
                              \/ size[q] < size[p]
                              \/ size[q] = size[p] /\ p[1] < q[1]
                              \/ size[q] = size[p] /\ p[1] = q[1] /\ p[2] <= q[2],
                       size)
        sized(starts) ==
            longest(starts, [p \in starts |-> MatchLen(a, b, p[1], p[2], ahi, bhi)])
    IN  sized({p \in (alo..ahi) \X (blo..bhi) :
                  /\ a[p[1]] = b[p[2]]
                  /\ (p[1] = alo \/ p[2] = blo \/ a[p[1] - 1] # b[p[2] - 1])})

\* the sum of the sizes of get_matching_blocks()
RECURSIVE matches(_, _, _, _, _, _)
matches(a, b, alo, ahi, blo, bhi) ==
    LET around(m) ==
            IF m[3] = 0 THEN 0
            ELSE m[3] + matches(a, b, alo, m[1] - 1, blo, m[2] - 1)
                      + matches(a, b, m[1] + m[3], ahi, m[2] + m[3], bhi)
    IN  IF alo > ahi \/ blo > bhi THEN 0
        ELSE around(find_longest_match(a, b, alo, ahi, blo, bhi))

\* the number of occurrences of c in s
count(s, c) == Cardinality({i \in 1..Len(s) : s[i] = c})

Min(x, y) == IF x <= y THEN x ELSE y

\* the size of the multiset intersection of a and b (quick_ratio)
RECURSIVE sum_common(_, _, _)
sum_common(a, b, cs) ==
    IF cs = {} THEN 0
    ELSE LET c == CHOOSE c \in cs : TRUE
         IN  Min(count(a, c), count(b, c)) + sum_common(a, b, cs \ {c})

\* ratio() >= cutoff, the cutoff in tenths: 2.0*M/T >= cutoff/10, and 1.0 when T = 0
ratio_ge(a, b, cutoff) ==
    LET T == Len(a) + Len(b)
    IN  IF T = 0 THEN 10 >= cutoff
        ELSE 20 * matches(a, b, 1, Len(a), 1, Len(b)) >= cutoff * T

real_quick_ratio_ge(a, b, cutoff) ==
    LET T == Len(a) + Len(b)
    IN  IF T = 0 THEN 10 >= cutoff
        ELSE 20 * Min(Len(a), Len(b)) >= cutoff * T

quick_ratio_ge(a, b, cutoff) ==
    LET T == Len(a) + Len(b)
    IN  IF T = 0 THEN 10 >= cutoff
        ELSE 20 * sum_common(a, b, {a[i] : i \in 1..Len(a)}) >= cutoff * T

\* (score, x) > (score', x') for the scores of two candidates of one word:
\* both scores are 2.0*M/T with T = Len(x) + Len(word)
score_greater(word, x, y) ==
    LET greater(mx, my, tx, ty) ==
            \/ mx * ty > my * tx
            \/ mx * ty = my * tx /\ strless(y, x)
    IN  greater(matches(x, word, 1, Len(x), 1, Len(word)),
                matches(y, word, 1, Len(y), 1, Len(word)),
                Len(x) + Len(word),
                Len(y) + Len(word))

\* difflib.get_close_matches(word, possibilities, n=1, cutoff): the candidates
\* are sequence 1 and the word is sequence 2; the best is max((score, x)),
\* the first such candidate when several are equal.  <<>> when none qualifies.
get_close_matches(word, possibilities, cutoff) ==
    LET best_of(good) ==
            IF good = {} THEN <<>>
            ELSE <<possibilities[CHOOSE i \in good :
                                    \A k \in good \ {i} :
                                       ~score_greater(word, possibilities[k], possibilities[i])]>>
    IN  best_of({i \in 1..Len(possibilities) :
                    /\ real_quick_ratio_ge(possibilities[i], word, cutoff)
                    /\ quick_ratio_ge(possibilities[i], word, cutoff)
                    /\ ratio_ge(possibilities[i], word, cutoff)})

(***************************************************************************)
(* The catalog: a table (pandas DataFrame) with a set of columns and a     *)
(* sequence of rows, each row a function from the columns to its values.   *)
(***************************************************************************)
\* str(n) of an integer n >= 0
RECURSIVE str(_)
str(n) == IF n < 10 THEN <<Digits[n + 1]>>
          ELSE str(n \div 10) \o <<Digits[(n % 10) + 1]>>

\* catalog[col].tolist(); the caller has checked that the column exists
tolist(catalog, col) == [i \in 1..Len(catalog.rows) |-> catalog.rows[i][col]]

\* first_row taking the last row the mask keeps (.iloc[-1])
last_row(rows, mask) ==
    IF mask = {} THEN <<>>
    ELSE <<rows[CHOOSE i \in mask : \A k \in mask : i >= k]>>

\* catalog[mask] followed, unless match.empty, by .iloc[0]: mask is the set of the
\* positions whose row the boolean mask keeps; <<>> when it keeps none, else the
\* first row it keeps, in table order
first_row(rows, mask) ==
    IF mask = {} THEN <<>>
    ELSE <<rows[CHOOSE i \in mask : \A k \in mask : i <= k]>>

\* the positions of the rows whose column col, lowercased, equals value
mask_lower_eq(catalog, col, value) ==
    {i \in 1..Len(catalog.rows) : lower(catalog.rows[i][col]) = value}

\* the positions of the rows whose column col equals value
mask_eq(catalog, col, value) ==
    {i \in 1..Len(catalog.rows) : catalog.rows[i][col] = value}

\* EmailProcessor.__init__: read_csv, then the product-name pattern is built
\* from the Product_Name column; no other column is read here
EmailProcessor_init(src) ==
    IF ~src.exists THEN Raise("FileNotFoundError")
    ELSE IF "Product_Name" \notin src.columns THEN Raise("KeyError")
    ELSE Ok([columns |-> src.columns, rows |-> src.rows])

find_product_fuzzy(catalog, extracted_name) ==
    LET row_of(match) == IF match # <<>> THEN Ok(PyDict(match[1])) ELSE Ok(None)
        named(close) ==
            IF close = <<>> THEN Ok(None)
            ELSE row_of(first_row(catalog.rows,
                                  mask_eq(catalog, "Product_Name", close[1])
                                  \cup mask_eq(catalog, "Product_Code", close[1])))
    IN  named(get_close_matches(extracted_name,
                                tolist(catalog, "Product_Name") \o tolist(catalog, "Product_Code"),
                                8))

find_product_by_code(catalog, extracted_name) ==
    LET or_fuzzy(match) ==
            IF match # <<>> THEN Ok(PyDict(match[1]))
            ELSE find_product_fuzzy(catalog, extracted_name)
    IN  IF "Product_Code" \notin catalog.columns THEN Raise("KeyError")
        ELSE or_fuzzy(first_row(catalog.rows,
                                mask_lower_eq(catalog, "Product_Code", lower(extracted_name))))

\* EmailProcessor.find_product: exact name, then exact code, then fuzzy at 0.8
find_product(catalog, extracted_name) ==
    LET or_by_code(match) ==
            IF match # <<>> THEN Ok(PyDict(match[1]))
            ELSE find_product_by_code(catalog, extracted_name)
    IN  IF "Product_Name" \notin catalog.columns THEN Raise("KeyError")
        ELSE or_by_code(first_row(catalog.rows,
                                  mask_lower_eq(catalog, "Product_Name", lower(extracted_name))))

MsgNotFound == <<"P","r","o","d","u","c","t"," ","n","o","t"," ","f","o","u","n","d"," ","i","n"," ","c","a","t","a","l","o","g">>

\* f"Quantity {quantity} is below MOQ of {moq} for {name}"
MsgBelowMOQ(quantity, moq, name) ==
    <<"Q","u","a","n","t","i","t","y"," ">> \o str(quantity)
    \o <<" ","i","s"," ","b","e","l","o","w"," ","M","O","Q"," ","o","f"," ">> \o str(moq)
    \o <<" ","f","o","r"," ">> \o name

\* f"Increase quantity to {moq}"
MsgIncrease(moq) ==
    <<"I","n","c","r","e","a","s","e"," ","q","u","a","n","t","i","t","y"," ","t","o"," ">> \o str(moq)

\* f"Requested quantity {quantity} exceeds available stock of {stock} for {name}"
MsgExceedsStock(quantity, stock, name) ==
    <<"R","e","q","u","e","s","t","e","d"," ","q","u","a","n","t","i","t","y"," ">> \o str(quantity)
    \o <<" ","e","x","c","e","e","d","s"," ","a","v","a","i","l","a","b","l","e"," ","s","t","o","c","k"," ","o","f"," ">> \o str(stock)
    \o <<" ","f","o","r"," ">> \o name

\* f"Reduce quantity to {stock}"
MsgReduce(stock) ==
    <<"R","e","d","u","c","e"," ","q","u","a","n","t","i","t","y"," ","t","o"," ">> \o str(stock)

\* Python truthiness of the product argument
truthy(product) ==
    CASE product.type = "NoneType" -> FALSE
      [] product.type = "dict" -> DOMAIN product.d # {}
      [] product.type = "str" -> product.s # <<>>

\* product[key]: a str only takes integer indices, a dict raises on a missing key
subscript_error(product, key) ==
    IF product.type = "str" THEN "TypeError"
    ELSE IF key \notin DOMAIN product.d THEN "KeyError"
    ELSE ""

\* the branch `if not product` (lines 152-159); the suggestions come from
\* `get_close_matches(...) if product else []`, and product is falsy here
validate_absent(catalog) ==
    IF "Product_Name" \notin catalog.columns \/ "Product_Code" \notin catalog.columns
    THEN Raise("KeyError")
    ELSE Ok([is_valid |-> FALSE, issues |-> <<MsgNotFound>>, suggestions |-> <<>>])

\* validate_stock as an `elif` of the MOQ check: skipped once an issue is recorded
validate_stock_elif(product, quantity, issues, suggestions) ==
    IF subscript_error(product, "Available_in_Stock") # ""
    THEN Raise(subscript_error(product, "Available_in_Stock"))
    ELSE LET stock == product.d["Available_in_Stock"]
             over == quantity > stock /\ issues = <<>>
         IN  LET issues2 == IF over
                            THEN Append(issues, MsgExceedsStock(quantity, stock, product.d["Product_Name"]))
                            ELSE issues
                 suggestions2 == IF over THEN Append(suggestions, MsgReduce(stock))
                                 ELSE suggestions
             IN  Ok([is_valid |-> Len(issues2) = 0, issues |-> issues2,
                     suggestions |-> suggestions2])

\* the stock check (lines 163-166), after the issues of the MOQ check
validate_stock(product, quantity, issues, suggestions) ==
    IF subscript_error(product, "Available_in_Stock") # ""
    THEN Raise(subscript_error(product, "Available_in_Stock"))
    ELSE LET stock == product.d["Available_in_Stock"]
             over == quantity > stock
         IN  IF over /\ subscript_error(product, "Product_Name") # ""
             THEN Raise(subscript_error(product, "Product_Name"))
             ELSE LET issues2 == IF over
                                 THEN Append(issues, MsgExceedsStock(quantity, stock, product.d["Product_Name"]))
                                 ELSE issues
                      suggestions2 == IF over THEN Append(suggestions, MsgReduce(stock))
                                      ELSE suggestions
                  IN  Ok([is_valid |-> Len(issues2) = 0, issues |-> issues2,
                          suggestions |-> suggestions2])

\* EmailProcessor.validate_against_catalog
validate_against_catalog(catalog, product, quantity) ==
    IF ~truthy(product) THEN validate_absent(catalog)
    ELSE IF subscript_error(product, "Min_Order_Quantity") # ""
    THEN Raise(subscript_error(product, "Min_Order_Quantity"))
    ELSE LET moq == product.d["Min_Order_Quantity"]
             below == quantity < moq
         IN  IF below /\ subscript_error(product, "Product_Name") # ""
             THEN Raise(subscript_error(product, "Product_Name"))
             ELSE validate_stock(product, quantity,
                     IF below THEN <<MsgBelowMOQ(quantity, moq, product.d["Product_Name"])>> ELSE <<>>,
                     IF below THEN <<MsgIncrease(moq)>> ELSE <<>>)

(***************************************************************************)
(* extract_delivery_details                                                *)
(***************************************************************************)
NON_PRODUCT_PHRASES ==
    <<<<"d","e","l","i","v","e","r"," ","t","o">>,
       <<"l","e","t"," ","m","e"," ","k","n","o","w">>,
       <<"p","r","i","c","i","n","g">>,
       <<"a","v","a","i","l","a","b","i","l","i","t","y">>,
       <<"b","e","f","o","r","e">>,
       <<"a","d","d","r","e","s","s">>,
       <<"d","o"," ","d","e","l","i","v","e","r">>,
       <<"m","e","g","u","r","o">>,
       <<"j","a","p","a","n">>>>

address_keywords ==
    <<<<"s","h","i","p"," ","t","o">>,
       <<"s","e","n","d"," ","t","o">>,
       <<"d","e","l","i","v","e","r","y"," ","a","d","d","r","e","s","s">>,
       <<"p","l","e","a","s","e"," ","d","e","l","i","v","e","r"," ","t","o">>,
       <<"d","e","l","i","v","e","r"," ","t","o">>,
       <<"r","e","c","i","p","i","e","n","t">>,
       <<"a","d","d","r","e","s","s"," ","i","s">>,
       <<"s","h","i","p"," ","t","h","e","m"," ","t","o">>>>

\* the alternatives of the address pattern (street|st|avenue|...|city|,)
address_tokens ==
    <<<<"s","t","r","e","e","t">>,
       <<"s","t">>,
       <<"a","v","e","n","u","e">>,
       <<"a","v","e">>,
       <<"r","o","a","d">>,
       <<"r","d">>,
       <<"l","a","n","e">>,
       <<"l","n">>,
       <<"b","l","v","d">>,
       <<"d","r","i","v","e">>,
       <<"d","r">>,
       <<"w","a","y">>,
       <<"c","o","u","r","t">>,
       <<"c","t">>,
       <<"p","l","a","z","a">>,
       <<"c","i","r","c","l","e">>,
       <<"p","a","r","k","w","a","y">>,
       <<"s","q","u","a","r","e">>,
       <<"b","l","o","c","k">>,
       <<"b","l","d","g">>,
       <<"s","u","i","t","e">>,
       <<"a","p","t">>,
       <<"u","n","i","t">>,
       <<"r","o","o","m">>,
       <<"p","o"," ","b","o","x">>,
       <<"c","i","t","y">>,
       <<",">>>>

date_keywords ==
    <<<<"b","e","f","o","r","e">>,
       <<"b","y">>,
       <<"d","e","a","d","l","i","n","e">>,
       <<"r","e","q","u","e","s","t","e","d"," ","d","e","l","i","v","e","r","y"," ","d","a","t","e">>,
       <<"d","e","l","i","v","e","r"," ","o","n">>,
       <<"d","e","l","i","v","e","r"," ","b","e","f","o","r","e">>,
       <<"d","e","l","i","v","e","r","y"," ","d","a","t","e">>,
       <<"n","e","e","d","e","d"," ","o","n">>,
       <<"a","r","r","i","v","e"," ","b","y">>,
       <<"n","o"," ","l","a","t","e","r"," ","t","h","a","n">>,
       <<"e","x","p","e","c","t","e","d"," ","o","n">>,
       <<"r","e","q","u","i","r","e","d"," ","d","e","l","i","v","e","r","y"," ","d","a","t","e">>>>

\* some element of the sequence of phrases occurs in s
any_in(phrases, s) == \E k \in 1..Len(phrases) : contains(s, phrases[k])

\* re.search of the address pattern, re.IGNORECASE
looks_like_address(line) == any_in(address_tokens, lower(line))

\* x\s*\d+ at position i of the lowercased line
x_digits_at(l, i) ==
    /\ l[i] = "x"
    /\ \E j \in (i + 1)..Len(l) :
          /\ isdigit(l[j])
          /\ \A k \in (i + 1)..(j - 1) : isspace(l[k])

\* re.search(r'(pcs|qty|x\s*\d+|need \d+)', line, re.IGNORECASE)
looks_like_product_line(line) ==
    LET l == lower(line)
    IN  \/ contains(l, <<"p","c","s">>)
        \/ contains(l, <<"q","t","y">>)
        \/ \E i \in 1..Len(l) : x_digits_at(l, i)
        \/ \E i \in 1..Len(l) :
              /\ MatchAt(l, <<"n","e","e","d"," ">>, i)
              /\ i + 5 <= Len(l)
              /\ isdigit(l[i + 5])

\* lines = [line.strip() for line in text.splitlines() if line.strip()]
RECURSIVE stripped_lines(_)
stripped_lines(ls) ==
    IF ls = <<>> THEN <<>>
    ELSE (IF strip(ls[1]) # <<>> THEN <<strip(ls[1])>> ELSE <<>>) \o stripped_lines(Tail(ls))

\* the first keyword of the list that occurs in the lowercased line, 0 when none does
first_keyword(keywords, line) ==
    IF any_in(keywords, lower(line))
    THEN CHOOSE k \in 1..Len(keywords) :
            /\ contains(lower(line), keywords[k])
            /\ \A m \in 1..(k - 1) : ~contains(lower(line), keywords[m])
    ELSE 0

\* what the keyword loop assigns to address at line i (lines 31-43): None when no
\* keyword occurs in the line or neither branch assigns
address_at(lines, i) ==
    LET assigned(k, after_colon) ==
            IF k = 0 THEN None
            ELSE IF after_colon # <<>> /\ lower(after_colon) # address_keywords[k]
                 THEN PyStr(after_colon)
            ELSE IF i + 1 <= Len(lines)
                 THEN IF i + 2 <= Len(lines) /\ looks_like_address(lines[i + 2])
                      THEN PyStr(lines[i + 1] \o <<",", " ">> \o lines[i + 2])
                      ELSE PyStr(lines[i + 1])
            ELSE None
    IN  assigned(first_keyword(address_keywords, lines[i]),
                 strip(after_first_colon(lines[i])))

\* the keyword loop over the lines, from line i on (lines 30-45)
RECURSIVE keyword_address(_, _)
keyword_address(lines, i) ==
    LET or_next_line(address) ==
            IF address # None THEN address ELSE keyword_address(lines, i + 1)
    IN  IF i > Len(lines) THEN None
        ELSE or_next_line(address_at(lines, i))

\* the fallback loop (lines 48-56)
RECURSIVE fallback_address(_, _)
fallback_address(lines, i) ==
    IF i > Len(lines) THEN None
    ELSE IF looks_like_product_line(lines[i]) THEN fallback_address(lines, i + 1)
    ELSE IF looks_like_address(lines[i]) THEN PyStr(lines[i])
    ELSE fallback_address(lines, i + 1)

extract_address(lines) ==
    LET or_fallback(address) ==
            IF address # None THEN address ELSE fallback_address(lines, 1)
    IN  or_fallback(keyword_address(lines, 1))

\* dddd-dd-dd at position i of s
iso_date_at(s, i) ==
    /\ i + 9 <= Len(s)
    /\ \A k \in {0, 1, 2, 3, 5, 6, 8, 9} : isdigit(s[i + k])
    /\ s[i + 4] = "-"
    /\ s[i + 7] = "-"

\* the number of days of month m of year y
days_in_month(y, m) ==
    IF m \in {4, 6, 9, 11} THEN 30
    ELSE IF m # 2 THEN 31
    ELSE IF (y % 4 = 0 /\ y % 100 # 0) \/ y % 400 = 0 THEN 29
    ELSE 28

\* datetime(y, m, d) is a datetime; for any other y, m, d it raises ValueError
is_date(y, m, d) ==
    /\ y \in 1..9999
    /\ m \in 1..12
    /\ d \in 1..days_in_month(y, m)

\* the datetime that dddd-dd-dd at position i of s writes, if it is one
iso_date_of(s, i) ==
    DateTime(int(SubSeq(s, i, i + 3)), int(SubSeq(s, i + 5, i + 6)),
             int(SubSeq(s, i + 8, i + 9)), 0, 0, 0)

valid_iso_date_at(s, i) ==
    /\ iso_date_at(s, i)
    /\ is_date(iso_date_of(s, i).dt.year, iso_date_of(s, i).dt.month,
               iso_date_of(s, i).dt.day)

\* a datetime that the library computes from a phrase that writes no ISO date
\* ("March 5", "tomorrow")
LibraryDates == {DateTime(2025, 3, 5, 0, 0, 0)}

\* What dateparser may answer for a phrase.  The library is not part of the
\* repository; the code relies on its answer being None or a datetime.  A
\* phrase that is exactly a date of the calendar in ISO form is that date; for
\* any other phrase the library may find no date, a date of the calendar that
\* the phrase writes, or a date it computes from other words of the phrase.
dateparser_answers(phrase) ==
    LET among(s) ==
            IF Len(s) = 10 /\ valid_iso_date_at(s, 1) THEN {iso_date_of(s, 1)}
            ELSE {None} \cup LibraryDates
                 \cup {iso_date_of(s, i) : i \in {k \in 1..Len(s) : valid_iso_date_at(s, k)}}
    IN  among(strip(phrase))

\* n written with at least w digits
RECURSIVE zero_pad(_, _)
zero_pad(s, w) == IF Len(s) >= w THEN s ELSE zero_pad(<<"0">> \o s, w)

\* datetime.strftime('%Y-%m-%d'); %Y is the year as the C library writes it,
\* without padding
strftime_date(dt) ==
    str(dt.year) \o <<"-">> \o zero_pad(str(dt.month), 2)
    \o <<"-">> \o zero_pad(str(dt.day), 2)

\* dateparser.parse(date_str, settings=...): lib.parse is the answer of the
\* library for every phrase it is asked about
dateparser_parse(lib, date_str) == lib.parse[date_str]

\* dateparser.search.search_dates(text, settings=...): None, or the datetime
\* of the first date phrase found (found[0][1]); lib.search is that answer
search_dates(lib, text) == lib.search

\* date_str of a line (line 68)
date_str_of(line) ==
    IF contains(line, <<":">>) THEN after_first_colon(line) ELSE line

\* the date the keyword loop finds at one line (lines 66-72): every keyword that
\* occurs in the line parses the same date_str, so the first one decides
date_at(lib, line) ==
    LET formatted(parsed_date) ==
            IF parsed_date # None THEN PyStr(strftime_date(parsed_date.dt)) ELSE None
    IN  IF first_keyword(date_keywords, line) = 0 THEN None
        ELSE formatted(dateparser_parse(lib, date_str_of(line)))

RECURSIVE keyword_date(_, _, _)
keyword_date(lib, lines, i) ==
    LET or_next_date(date) ==
            IF date # None THEN date ELSE keyword_date(lib, lines, i + 1)
    IN  IF i > Len(lines) THEN None
        ELSE or_next_date(date_at(lib, lines[i]))

\* the fallback (lines 77-80)
searched_date(lib, text) ==
    LET formatted(found) ==
            IF found # None THEN PyStr(strftime_date(found.dt)) ELSE None
    IN  formatted(search_dates(lib, text))

extract_date(lib, text, lines) ==
    LET or_search(date) ==
            IF date # None THEN date ELSE searched_date(lib, text)
    IN  or_search(keyword_date(lib, lines, 1))

extract_delivery_details(text, lib) ==
    LET details(lines) ==
            [address |-> extract_address(lines), date |-> extract_date(lib, text, lines)]
    IN  details(stripped_lines(splitlines(text)))

\* the lines of a text whose date_str the keyword loop may hand to dateparser.parse
date_lines(lines) ==
    {k \in 1..Len(lines) : first_keyword(date_keywords, lines[k]) # 0}

\* the phrases of a text that the keyword loop may hand to dateparser.parse
date_strs(text) ==
    LET of_lines(lines) == {date_str_of(lines[i]) : i \in date_lines(lines)}
    IN  of_lines(stripped_lines(splitlines(text)))

\* the libraries as far as one call on a text can tell them apart: an answer
\* for every phrase the call may parse and an answer for the search of the text
Dateparsers(text) ==
    LET all_answers(phrases) == UNION {dateparser_answers(p) : p \in phrases}
        over(phrases) ==
            {[parse |-> f, search |-> a] :
                f \in {g \in [phrases -> all_answers(phrases)] :
                          \A p \in phrases : g[p] \in dateparser_answers(p)},
                a \in dateparser_answers(text)}
    IN  over(date_strs(text))

\* the outcomes of extract_delivery_details over what the date library may answer
delivery_details_outcomes(text) ==
    LET over(lines, address, libs) ==
            {[address |-> address, date |-> extract_date(lib, text, lines)] : lib \in libs}
    IN  over(stripped_lines(splitlines(text)),
             extract_address(stripped_lines(splitlines(text))),
             Dateparsers(text))

(***************************************************************************)
(* extract_customer_notes                                                  *)
(***************************************************************************)
\* the first position at or after i whose character is not in skip
skip_while(text, i, skip) ==
    LET stops == {j \in i..Len(text) : text[j] \notin skip}
    IN  IF stops # {} THEN CHOOSE j \in stops : \A k \in stops : j <= k
        ELSE IF i > Len(text) THEN i
        ELSE Len(text) + 1

\* (.*) from position i: up to the next "\n", which the dot does not match
rest_of_line(text, i) ==
    LET ends == {j \in i..Len(text) : text[j] = "\n"}
    IN  SubSeq(text, i, IF ends = {} THEN Len(text)
                        ELSE (CHOOSE j \in ends : \A k \in ends : j <= k) - 1)

\* re.search(literal + optional + [skip]* + (.*), text, re.IGNORECASE).group(1).strip(),
\* None when the literal does not occur; optional is a sequence of characters each
\* of which is taken when it comes next
note_after(text, literal, optional, skip) ==
    LET group(r) == PyStr(strip(rest_of_line(text, skip_while(text, r, skip))))
        after(q) ==
            group(IF optional # <<>> /\ q <= Len(text) /\ lowerchar(text[q]) = optional[1]
                  THEN q + 1 ELSE q)
        from_match(p) == IF p = 0 THEN None ELSE after(p + Len(literal))
    IN  from_match(find(lower(text), literal))

note_patterns(text) ==
    <<note_after(text, <<"n","o","t","e">>, <<"s">>, {":", "-", " ", "\n", "\r", "\t"}),
      note_after(text, <<"l","e","t"," ","m","e"," ","k","n","o","w">>, <<>>, {":", "-", " ", "\n", "\r", "\t"}),
      note_after(text, <<"i","f"," ","t","h","e","r","e"," ","a","r","e"," ","b","e","t","t","e","r"," ","a","l","t","e","r","n","a","t","i","v","e","s"," ","f","o","r"," ","a","n","y"," ","i","t","e","m",","," ">>, <<>>, {}),
      note_after(text, <<"s","i","n","c","e","r","e","l","y",",">>, <<>>, {" ", "\n", "\r", "\t"})>>

\* EmailProcessor.extract_customer_notes: the first pattern that matches decides
extract_customer_notes(text) ==
    LET first_hit(found, hits) ==
            IF hits = {} THEN None
            ELSE found[CHOOSE k \in hits : \A m \in hits : k <= m]
        hits_of(found) == first_hit(found, {k \in 1..Len(found) : found[k] # None})
    IN  hits_of(note_patterns(text))

(***************************************************************************)
(* extract_products_and_quantities                                         *)
(***************************************************************************)
\* extract_line that takes a line without a number as a quantity of 1
extract_line_default_quantity(catalog, line) ==
    LET d == first_digit(line)
        entry(quantity, extracted_name, matched, found) ==
            IF matched /\ found.raised # "" THEN found
            ELSE IF any_in(NON_PRODUCT_PHRASES, lower(extracted_name)) THEN Ok(<<>>)
            ELSE Ok(<<[product |-> IF matched THEN found.val ELSE None,
                       quantity |-> quantity,
                       confidence |-> IF matched THEN 10 ELSE 5,
                       extracted_name |-> extracted_name]>>)
        matched_entry(quantity, candidate, best) ==
            IF best # <<>>
            THEN entry(quantity, best[1], TRUE, find_product(catalog, best[1]))
            ELSE entry(quantity, candidate, FALSE, Ok(None))
        candidate_entry(quantity, candidate) ==
            matched_entry(quantity, candidate,
                          get_close_matches(candidate, tolist(catalog, "Product_Name"), 6))
    IN  candidate_entry(IF d = 0 THEN 1 ELSE int(SubSeq(line, d, digit_run_end(line, d))),
                        stripchars(remove_digits(line), {" ", "-", ":", "x", "*", ".", ","}))

\* one line of the loop (lines 129-146): <<>> when the line is skipped, else the
\* one entry it appends; raises what find_product raises
extract_line(catalog, line) ==
    LET d == first_digit(line)
        entry(quantity, extracted_name, matched, found) ==
            IF matched /\ found.raised # "" THEN found
            ELSE IF any_in(NON_PRODUCT_PHRASES, lower(extracted_name)) THEN Ok(<<>>)
            ELSE Ok(<<[product |-> IF matched THEN found.val ELSE None,
                       quantity |-> quantity,
                       confidence |-> IF matched THEN 10 ELSE 5,
                       extracted_name |-> extracted_name]>>)
        matched_entry(quantity, candidate, best) ==
            IF best # <<>>
            THEN entry(quantity, best[1], TRUE, find_product(catalog, best[1]))
            ELSE entry(quantity, candidate, FALSE, Ok(None))
        candidate_entry(quantity, candidate) ==
            matched_entry(quantity, candidate,
                          get_close_matches(candidate, tolist(catalog, "Product_Name"), 6))
    IN  IF d = 0 THEN Ok(<<>>)
        ELSE candidate_entry(int(SubSeq(line, d, digit_run_end(line, d))),
                             stripchars(remove_digits(line), {" ", "-", ":", "x", "*", ".", ","}))

RECURSIVE extract_lines(_, _)
extract_lines(catalog, ls) ==
    LET extended(head, rest) ==
            IF head.raised # "" THEN head
            ELSE IF rest.raised # "" THEN rest
            ELSE Ok(head.val \o rest.val)
    IN  IF ls = <<>> THEN Ok(<<>>)
        ELSE extended(extract_line(catalog, ls[1]), extract_lines(catalog, Tail(ls)))

\* EmailProcessor.extract_products_and_quantities
extract_products_and_quantities(catalog, text) ==
    IF "Product_Name" \notin catalog.columns THEN Raise("KeyError")
    ELSE extract_lines(catalog, splitlines(text))

(***************************************************************************)
(* app/models/base.py: the pydantic models.  A model keeps the declared     *)
(* fields only: a keyword argument that names no field is ignored (the      *)
(* default `extra` setting), a field without an argument takes its default. *)
(***************************************************************************)
PyList(l) == [type |-> "list", l |-> l]

BaseModel(fields, defaults, kwargs) ==
    [f \in fields |-> IF f \in DOMAIN kwargs THEN kwargs[f] ELSE defaults[f]]

OrderItem_fields ==
    {"sku", "quantity", "confidence_score", "notes", "suggested_replacements",
     "validation_issues", "price"}

OrderItem_defaults ==
    [notes |-> None, suggested_replacements |-> None, validation_issues |-> None,
     price |-> 0]

\* confidence_score: float = Field(ge=0.0, le=1.0), in tenths
OrderItem(kwargs) ==
    IF kwargs.confidence_score < 0 \/ kwargs.confidence_score > 10
    THEN Raise("ValidationError")
    ELSE Ok(BaseModel(OrderItem_fields, OrderItem_defaults, kwargs))

Order_fields ==
    {"order_id", "customer_email", "items", "delivery_preferences", "created_at",
     "status", "total_confidence_score", "validation_issues"}

\* what datetime.now() may show when an Order is built
Clocks == {DateTime(2025, 1, 10, 12, 0, 0), DateTime(2025, 1, 10, 12, 0, 1)}

\* created_at defaults to datetime.now()
Order_defaults(now) ==
    [delivery_preferences |-> None, created_at |-> now,
     status |-> <<"p","e","n","d","i","n","g">>, validation_issues |-> None]

\* total_confidence_score: float = Field(ge=0.0, le=1.0), in tenths
Order(kwargs, now) ==
    IF kwargs.total_confidence_score < 0 \/ kwargs.total_confidence_score > 10
    THEN Raise("ValidationError")
    ELSE Ok(BaseModel(Order_fields, Order_defaults(now), kwargs))

\* datetime.strftime('%Y%m%d%H%M%S'); %Y is the year as the C library writes
\* it, without padding: the year 999 gives "999"
strftime(dt) ==
    str(dt.year) \o zero_pad(str(dt.month), 2) \o zero_pad(str(dt.day), 2)
    \o zero_pad(str(dt.hour), 2) \o zero_pad(str(dt.minute), 2)
    \o zero_pad(str(dt.second), 2)

(***************************************************************************)
(* process_email                                                           *)
(***************************************************************************)
\* filter_confident that keeps every entry
filter_confident_keep_all(items) == items

\* [item for item in extracted_items if item[2] >= 0.7]
RECURSIVE filter_confident(_)
filter_confident(items) ==
    IF items = <<>> THEN <<>>
    ELSE (IF items[1].confidence >= 7 THEN <<items[1]>> ELSE <<>>)
         \o filter_confident(Tail(items))

\* build_item that gives every item its issue list, also an empty one
build_item_always_issues(catalog, entry) ==
    LET matched == truthy(entry.product)
        item(v) ==
            IF v.raised # "" THEN v
            ELSE IF matched /\ subscript_error(entry.product, "Product_Code") # ""
            THEN Raise(subscript_error(entry.product, "Product_Code"))
            ELSE IF matched /\ subscript_error(entry.product, "Price") # ""
            THEN Raise(subscript_error(entry.product, "Price"))
            ELSE OrderItem(
                   [sku |-> IF matched THEN entry.product.d["Product_Code"]
                            ELSE entry.extracted_name,
                    quantity |-> entry.quantity,
                    confidence_score |-> entry.confidence,
                    validation_issues |-> PyList(v.val.issues),
                    suggested_replacements |-> IF ~v.val.is_valid
                                               THEN PyList(v.val.suggestions)
                                               ELSE None,
                    price |-> IF matched THEN entry.product.d["Price"] ELSE 0])
    IN  item(validate_against_catalog(catalog, entry.product, entry.quantity))

\* one round of the loop over filtered_items (lines 174-183): the OrderItem
build_item(catalog, entry) ==
    LET matched == truthy(entry.product)
        item(v) ==
            IF v.raised # "" THEN v
            ELSE IF matched /\ subscript_error(entry.product, "Product_Code") # ""
            THEN Raise(subscript_error(entry.product, "Product_Code"))
            ELSE IF matched /\ subscript_error(entry.product, "Price") # ""
            THEN Raise(subscript_error(entry.product, "Price"))
            ELSE OrderItem(
                   [sku |-> IF matched THEN entry.product.d["Product_Code"]
                            ELSE entry.extracted_name,
                    quantity |-> entry.quantity,
                    confidence_score |-> entry.confidence,
                    validation_issues |-> IF ~v.val.is_valid THEN PyList(v.val.issues)
                                          ELSE None,
                    suggested_replacements |-> IF ~v.val.is_valid
                                               THEN PyList(v.val.suggestions)
                                               ELSE None,
                    price |-> IF matched THEN entry.product.d["Price"] ELSE 0])
    IN  item(validate_against_catalog(catalog, entry.product, entry.quantity))

RECURSIVE build_items(_, _)
build_items(catalog, entries) ==
    LET appended(head, rest) ==
            IF head.raised # "" THEN head
            ELSE IF rest.raised # "" THEN rest
            ELSE Ok(<<head.val>> \o rest.val)
    IN  IF entries = <<>> THEN Ok(<<>>)
        ELSE appended(build_item(catalog, entries[1]), build_items(catalog, Tail(entries)))

\* total_confidence after the loop
RECURSIVE sum_confidence(_)
sum_confidence(items) ==
    IF items = <<>> THEN 0
    ELSE items[1].confidence_score + sum_confidence(Tail(items))

\* avg_confidence with the divisor off by one
avg_confidence_off_by_one(items) ==
    IF items # <<>> THEN sum_confidence(items) \div (Len(items) + 1) ELSE 0

\* total_confidence / len(order_items) if order_items else 0.0.  Every item
\* that passes the filter has confidence 1.0, so the quotient is exact.
avg_confidence(items) ==
    IF items # <<>> THEN sum_confidence(items) \div Len(items) ELSE 0

\* [issue for item in order_items if item.validation_issues
\*        for issue in item.validation_issues]
RECURSIVE all_issues(_)
all_issues(items) ==
    IF items = <<>> THEN <<>>
    ELSE (IF items[1].validation_issues # None /\ items[1].validation_issues.l # <<>>
          THEN items[1].validation_issues.l ELSE <<>>)
         \o all_issues(Tail(items))

\* the first half of process_email (lines 169-186): the items of the Order,
\* or the error raised on the way; it reads neither the clock nor the date library
order_items_of(catalog, email) ==
    LET with_extracted(extracted_items) ==
            IF extracted_items.raised # "" THEN extracted_items
            ELSE build_items(catalog, filter_confident(extracted_items.val))
    IN  with_extracted(extract_products_and_quantities(catalog, email.raw_content))

\* the second half of process_email (lines 186-199) after the first has given
\* built and the extractors have given delivery_details and notes: the Order;
\* now is what the clock shows when created_at reads it
order_of(built, email, delivery_details, notes, now) ==
    LET order(order_items) ==
            Order(
               [order_id |-> <<"O","R","D","-">> \o (IF email.received_at # None
                                            THEN strftime(email.received_at.dt)
                                            ELSE <<"T","E","M","P">>),
                customer_email |-> IF truthy(email.sender) THEN email.sender.s
                                   ELSE <<"u","n","k","n","o","w","n","@","e","m","a","i","l",".","c","o","m">>,
                items |-> order_items,
                total_confidence_score |-> avg_confidence(order_items),
                validation_issues |-> PyList(all_issues(order_items)),
                delivery_details |-> delivery_details,
                notes |-> notes],
               now)
    IN  IF built.raised # "" THEN built ELSE order(built.val)

\* EmailProcessor.process_email; lib is the date library as the call meets it
process_email(catalog, email, now, lib) ==
    order_of(order_items_of(catalog, email), email,
             extract_delivery_details(email.raw_content, lib),
             extract_customer_notes(email.raw_content), now)

\* the outcomes of process_email over what the clock may show and the date
\* library may answer
process_email_outcomes(catalog, email) ==
    LET over(built, details, notes) ==
            {order_of(built, email, delivery_details, notes, now) :
                delivery_details \in details, now \in Clocks}
    IN  over(order_items_of(catalog, email),
             delivery_details_outcomes(email.raw_content),
             extract_customer_notes(email.raw_content))

(***************************************************************************)
(* Inputs.                                                                 *)
(***************************************************************************)
Columns ==
    {"Product_Name", "Product_Code", "Min_Order_Quantity", "Available_in_Stock", "Price"}

NameSuperWidget == <<"S","u","p","e","r","W","i","d","g","e","t">>

NameBolt == <<"S","t","e","e","l"," ","B","o","l","t">>

NameWidget == <<"W","i","d","g","e","t">>

CodeSW == <<"S","W","-","1","0","0">>

CodeABC == <<"A","B","C","-","1","2","3">>

CodeWG == <<"W","G","-","2","0","0">>

CodeSW2 == <<"S","W","-","2","0","0">>

CodeXX == <<"X","X","-","9","9","9">>

\* the product rows the catalogs are made of: SuperWidget (MOQ 20), the product
\* with code ABC-123 (MOQ 1, stock 100), a product whose stock is below its MOQ,
\* a second row named SuperWidget, and a row whose name is the code of the first
ProductRows ==
    <<[Product_Name |-> NameSuperWidget, Product_Code |-> CodeSW,
       Min_Order_Quantity |-> 20, Available_in_Stock |-> 100, Price |-> 2500],
      [Product_Name |-> NameBolt, Product_Code |-> CodeABC,
       Min_Order_Quantity |-> 1, Available_in_Stock |-> 100, Price |-> 150],
      [Product_Name |-> NameWidget, Product_Code |-> CodeWG,
       Min_Order_Quantity |-> 5, Available_in_Stock |-> 3, Price |-> 999],
      [Product_Name |-> NameSuperWidget, Product_Code |-> CodeSW2,
       Min_Order_Quantity |-> 2, Available_in_Stock |-> 8, Price |-> 3000],
      [Product_Name |-> CodeSW, Product_Code |-> CodeXX,
       Min_Order_Quantity |-> 1, Available_in_Stock |-> 50, Price |-> 100]>>

\* the tables: sequences of rows of ProductRows, given by their indices
Tables == {<<>>, <<1, 2, 3>>, <<1, 4>>, <<5, 1>>}

\* the table of the catalog files that lack a column
ReferenceTable == <<1, 2, 3>>

Restrict(f, S) == [x \in S |-> f[x]]

CatalogFile(t, cols) ==
    [exists |-> TRUE, columns |-> cols,
     rows |-> [i \in 1..Len(t) |-> Restrict(ProductRows[t[i]], cols)]]

\* a catalog file: a path of no file, a file with all five columns for every
\* table, and the reference table without one of its columns
Sources ==
    {[exists |-> FALSE, columns |-> {}, rows |-> <<>>]}
    \cup {CatalogFile(t, Columns) : t \in Tables}
    \cup {CatalogFile(ReferenceTable, Columns \ {c}) : c \in Columns}

LineScenarioA == <<"P","l","e","a","s","e"," ","o","r","d","e","r"," ","A","B","C","-","1","2","3",","," ","5"," ","p","i","e","c","e","s">>

LineScenarioB == <<"N","e","e","d"," ","1","0"," ","p","c","s"," ","o","f"," ","S","u","p","e","r","W","i","d","g","e","t">>

LineValid == <<"S","u","p","e","r","W","i","d","g","e","t"," ","x"," ","2","5">>

LineBothIssues == <<"W","i","d","g","e","t",":"," ","4">>

LineNoDigit == <<"S","u","p","e","r","W","i","d","g","e","t"," ","p","l","e","a","s","e">>

LineShipTo == <<"S","h","i","p"," ","t","o",":"," ","1","2","3"," ","M","a","i","n"," ","S","t","r","e","e","t",","," ","S","p","r","i","n","g","f","i","e","l","d">>

LineNotes == <<"N","o","t","e","s",":"," ","c","a","l","l"," ","o","n"," ","a","r","r","i","v","a","l">>

LineNoise == <<"b","e","f","o","r","e"," ","5"," ","S","u","p","e","r","W","i","d","g","e","t">>

LinePool ==
    <<LineScenarioA,
      LineScenarioB,
      LineValid,
      LineBothIssues,
      LineNoDigit,
      LineShipTo,
      LineNotes,
      LineNoise>>

MaxLines == 2

MaxQuantity == 9

\* "\n".join(lines)
RECURSIVE join_lines(_)
join_lines(ls) ==
    IF ls = <<>> THEN <<>>
    ELSE IF Len(ls) = 1 THEN ls[1]
    ELSE ls[1] \o <<"\n">> \o join_lines(Tail(ls))

\* the email bodies: up to MaxLines lines of the pool
Texts ==
    UNION {{join_lines([i \in 1..n |-> LinePool[pick[i]]]) :
                pick \in [1..n -> 1..Len(LinePool)]} : n \in 0..MaxLines}

SenderBob == <<"b","o","b","@","a","c","m","e",".","c","o","m">>

\* the sender and the timestamp of an email: neither given, or both
Headers ==
    {[sender |-> None, received_at |-> None],
     [sender |-> PyStr(SenderBob), received_at |-> DateTime(2025, 1, 9, 8, 30, 5)]}

\* EmailContent(raw_content=..., sender=..., received_at=...)
Emails ==
    {[raw_content |-> t, sender |-> h.sender, received_at |-> h.received_at] :
        t \in Texts, h \in Headers}

\* the quantities validate_against_catalog is called with: the small ones and
\* the ones around the MOQs and stocks of ProductRows
Quantities == 0..MaxQuantity \cup {10, 19, 20, 21, 50, 51, 100, 101}

SkuInvalid == <<"I","N","V","A","L","I","D","-","1","2","3">>

\* a SKU that is in no catalog and one character away from the code ABC-123
SkuNearMiss == <<"A","B","C","-","1","2","4">>

\* the products validate_against_catalog is called with: nothing, a row of the
\* catalog, or (as the tests do) a SKU string
ProductArgs(src) ==
    {None, PyStr(SkuInvalid), PyStr(SkuNearMiss), PyStr(CodeABC), PyStr(<<>>)}
    \cup {PyDict(src.rows[i]) : i \in 1..Len(src.rows)}

\* the phrases find_product is called with: the names and codes of ProductRows,
\* as written, lowercased and misspelt, and phrases far from all of them
Phrases ==
    LET exact == {ProductRows[i][c] : i \in 1..Len(ProductRows),
                                      c \in {"Product_Name", "Product_Code"}}
    IN  exact \cup {lower(p) : p \in exact}
        \cup {<<"S","u","p","e","r","W","i","d","g","t">>, SkuNearMiss, <<"G","i","z","m","o">>, <<"W","d","g","t">>, <<"S","u","p","e","r","W">>, <<>>}

LineShipToEmpty == <<"S","h","i","p"," ","t","o",":">>

LineDeliverTo == <<"D","e","l","i","v","e","r"," ","t","o"," ","t","h","e"," ","w","a","r","e","h","o","u","s","e">>

LineName == <<"J","o","h","n"," ","S","m","i","t","h">>

LineStreet == <<"4","5"," ","O","a","k"," ","A","v","e","n","u","e",","," ","S","h","e","l","b","y","v","i","l","l","e">>

LineBlank == <<" "," ">>

\* the lines of the texts whose delivery details are extracted: keyword lines
\* with an address after the colon, with nothing after it and without a colon,
\* a name, an address without a keyword, and a blank line
DetailLinePool ==
    <<LineShipTo, LineShipToEmpty, LineDeliverTo, LineName, LineStreet, LineBlank>>

MaxDetailLines == 3

DetailTexts ==
    UNION {{join_lines([i \in 1..n |-> DetailLinePool[pick[i]]]) :
                pick \in [1..n -> 1..Len(DetailLinePool)]} : n \in 0..MaxDetailLines}

LineDeadline == <<"D","e","a","d","l","i","n","e",":"," ","2","0","2","5","-","0","3","-","0","5">>

LineDeadlineNoDate == <<"D","e","a","d","l","i","n","e",":"," ","2","0","2","5","-","0","2","-","3","0">>

LineDeliverBy == <<"d","e","l","i","v","e","r"," ","b","y"," ","2","0","2","5","-","0","3","-","0","7">>

LineLeapDay == <<"s","e","e"," ","2","0","2","4","-","0","2","-","2","9">>

LineEarlyYear == <<"D","e","a","d","l","i","n","e",":"," ","0","9","9","9","-","0","1","-","0","1">>

LineNeededOn == <<"N","e","e","d","e","d"," ","o","n"," ","M","a","r","c","h"," ","5">>

\* the texts whose delivery date is extracted: a keyword line with a date of
\* the calendar after the colon, with a date that no calendar has, with a date
\* among other words, a date on a line without a keyword, a year below 1000,
\* and a keyword line without an ISO date before one with it
DateTexts ==
    {LineDeadline, LineDeadlineNoDate, LineDeliverBy, LineLeapDay, LineEarlyYear,
     LineNeededOn \o <<"\n">> \o LineDeadline,
     LineShipTo \o <<"\n">> \o LineDeadline}

\* the calls made on the processor; the delivery details, which do not read the
\* catalog, are extracted on the processor of the reference catalog
Calls(src) ==
    {[op |-> "process_email", email |-> e] : e \in Emails}
    \cup {[op |-> "validate_against_catalog", product |-> p, quantity |-> q] :
            p \in ProductArgs(src), q \in Quantities}
    \cup {[op |-> "find_product", extracted_name |-> n] : n \in Phrases}
    \cup (IF src = CatalogFile(ReferenceTable, Columns)
          THEN {[op |-> "extract_delivery_details", text |-> t] :
                    t \in DetailTexts \cup DateTexts}
          ELSE {})

(***************************************************************************)
(* The state machine: a catalog file, a processor constructed from it and  *)
(* one call made on the processor.                                         *)
(***************************************************************************)
NoProcessor == [state |-> "none"]

NoReturn == [op |-> "none"]

Init ==
    /\ source \in Sources
    /\ call \in Calls(source)
    /\ processor = NoProcessor
    /\ ret = NoReturn
    /\ history = <<>>

\* EmailProcessor(catalog_path)
Construct ==
    /\ processor = NoProcessor
    /\ processor' = LET r == EmailProcessor_init(source)
                    IN  IF r.raised = "" THEN [state |-> "ready", catalog |-> r.val]
                        ELSE [state |-> "failed", raised |-> r.raised]
    /\ UNCHANGED <<source, call, ret, history>>

Ready(op) ==
    /\ processor.state = "ready"
    /\ ret = NoReturn
    /\ call.op = op

\* processor.process_email(email); the method and the methods it calls assign
\* no attribute of the processor
ProcessEmail ==
    /\ Ready("process_email")
    /\ \E out \in process_email_outcomes(processor.catalog, call.email) :
          ret' = [op |-> call.op, out |-> out]
    /\ UNCHANGED <<source, call, processor, history>>

\* processor.validate_against_catalog(product, quantity)
ValidateAgainstCatalog ==
    /\ Ready("validate_against_catalog")
    /\ ret' = [op |-> call.op,
               out |-> validate_against_catalog(processor.catalog, call.product, call.quantity)]
    /\ UNCHANGED <<source, call, processor, history>>

\* processor.find_product(extracted_name)
FindProduct ==
    /\ Ready("find_product")
    /\ ret' = [op |-> call.op, out |-> find_product(processor.catalog, call.extracted_name)]
    /\ UNCHANGED <<source, call, processor, history>>

\* processor.extract_delivery_details(text)
ExtractDeliveryDetails ==
    /\ Ready("extract_delivery_details")
    /\ \E details \in delivery_details_outcomes(call.text) :
          ret' = [op |-> call.op, out |-> Ok(details)]
    /\ UNCHANGED <<source, call, processor, history>>

Next ==
    \/ Construct
    \/ ProcessEmail
    \/ ValidateAgainstCatalog
    \/ FindProduct
    \/ ExtractDeliveryDetails

Spec == Init /\ [][Next]_vars

(***************************************************************************)
(* A session: one processor, constructed once, processes several emails    *)
(* one after the other; history records every call and what it gave.       *)
(***************************************************************************)
MaxCalls == 3

SessionSources ==
    {CatalogFile(ReferenceTable, Columns),
     CatalogFile(<<1, 4>>, Columns),
     CatalogFile(ReferenceTable, Columns \ {"Available_in_Stock"})}

SessionTexts ==
    {LineBothIssues,
     LineScenarioB,
     LineValid \o <<"\n">> \o LineShipTo,
     LineNotes}

\* the emails of a session: three with a sender, one without
SessionEmails ==
    {[raw_content |-> t, sender |-> IF t = LineNotes THEN None ELSE PyStr(SenderBob),
      received_at |-> DateTime(2025, 1, 9, 8, 30, 5)] : t \in SessionTexts}

NoCall == [op |-> "none"]

InitSession ==
    /\ source \in SessionSources
    /\ call = NoCall
    /\ processor = NoProcessor
    /\ ret = NoReturn
    /\ history = <<>>

\* processor.process_email(email), for the next email of the session
ProcessNextEmail ==
    /\ processor.state = "ready"
    /\ Len(history) < MaxCalls
    /\ \E e \in SessionEmails :
          LET returned(out) ==
                  /\ call' = [op |-> "process_email", email |-> e]
                  /\ ret' = [op |-> "process_email", out |-> out]
                  /\ history' = Append(history, [email |-> e, out |-> out])
          IN  \E out \in process_email_outcomes(processor.catalog, e) : returned(out)
    /\ UNCHANGED <<source, processor>>

NextSession ==
    \/ Construct
    \/ ProcessNextEmail

SpecSession == InitSession /\ [][NextSession]_vars

(***************************************************************************)
(* Properties.                                                             *)
(***************************************************************************)
\* process_email has returned an Order
ReturnedOrder == ret.op = "process_email" /\ ret.out.raised = ""

\* validate_against_catalog has returned or raised
CalledValidate == ret.op = "validate_against_catalog"

\* find_product has returned or raised
CalledFindProduct == ret.op = "find_product"

\* the sum of the confidence scores of the items of an Order
RECURSIVE ItemConfidenceSum(_)
ItemConfidenceSum(items) ==
    IF items = <<>> THEN 0
    ELSE items[1].confidence_score + ItemConfidenceSum(Tail(items))

\* some issue of the list contains the phrase
SomeIssueContains(issues, phrase) ==
    \E k \in 1..Len(issues) : contains(issues[k], phrase)

PhraseBelowMOQ == <<"i","s"," ","b","e","l","o","w"," ","M","O","Q"," ","o","f">>

PhraseExceedsStock == <<"e","x","c","e","e","d","s"," ","a","v","a","i","l","a","b","l","e"," ","s","t","o","c","k">>

PhraseNotFound == <<"n","o","t"," ","f","o","u","n","d"," ","i","n"," ","c","a","t","a","l","o","g">>

\* C1: the total_confidence_score of every Order that process_email returns is
\* the arithmetic mean of the confidence scores of exactly its items (total
\* times the number of items is their sum), it is 0.0 when the Order has no
\* item, and it lies in [0, 1] (scores in tenths).
C1_TotalConfidenceIsMean ==
    ReturnedOrder =>
        LET o == ret.out.val
        IN  /\ o.items = <<>> => o.total_confidence_score = 0
            /\ o.total_confidence_score * Len(o.items) = ItemConfidenceSum(o.items)
            /\ o.total_confidence_score >= 0
            /\ o.total_confidence_score <= 10

\* an Order of two items has been returned
C1_Witness == ReturnedOrder /\ Len(ret.out.val.items) = 2

\* the product argument is a catalog row with an MOQ and a stock
ValidatedCatalogProduct ==
    /\ CalledValidate
    /\ call.product.type = "dict"
    /\ {"Min_Order_Quantity", "Available_in_Stock"} \subseteq DOMAIN call.product.d

\* C2: for every catalog product p and quantity q, validate_against_catalog
\* returns, with a below-MOQ issue if and only if q < p.MOQ and an
\* exceeds-stock issue if and only if q > p.availableStock, each whatever the
\* other check found, and is_valid is true exactly when the issue list is empty.
C2_ValidateChecksIndependent ==
    ValidatedCatalogProduct =>
        /\ ret.out.raised = ""
        /\ SomeIssueContains(ret.out.val.issues, PhraseBelowMOQ)
              <=> call.quantity < call.product.d["Min_Order_Quantity"]
        /\ SomeIssueContains(ret.out.val.issues, PhraseExceedsStock)
              <=> call.quantity > call.product.d["Available_in_Stock"]
        /\ ret.out.val.is_valid <=> ret.out.val.issues = <<>>

\* a quantity below the MOQ and above the stock has been validated
C2_Witness ==
    /\ ValidatedCatalogProduct
    /\ call.quantity < call.product.d["Min_Order_Quantity"]
    /\ call.quantity > call.product.d["Available_in_Stock"]
    /\ Len(ret.out.val.issues) = 2

\* the catalog file has the five columns and a row with code ABC-123, MOQ 1 and stock 100
CatalogOfScenarioA ==
    /\ Columns \subseteq source.columns
    /\ \E i \in 1..Len(source.rows) :
          /\ source.rows[i]["Product_Code"] = CodeABC
          /\ source.rows[i]["Min_Order_Quantity"] = 1
          /\ source.rows[i]["Available_in_Stock"] = 100

\* C3: the email "Please order ABC-123, 5 pieces", processed with a catalog that
\* has the code ABC-123 (MOQ 1, stock 100), gives an Order of exactly one item,
\* with sku ABC-123, quantity 5 (not the 123 of the code), confidence 1.0 and no
\* validation issue.
C3_ScenarioA ==
    (ret.op = "process_email" /\ CatalogOfScenarioA /\ call.email.raw_content = LineScenarioA) =>
        /\ ret.out.raised = ""
        /\ Len(ret.out.val.items) = 1
        /\ ret.out.val.items[1].sku = CodeABC
        /\ ret.out.val.items[1].quantity = 5
        /\ ret.out.val.items[1].confidence_score = 10
        /\ ret.out.val.items[1].validation_issues = None

\* C4: a catalog file that lacks one of the five required columns (in particular
\* one that lacks only the stock column) is never loaded: the construction of
\* the processor fails (whatever the type of the error it raises).
C4_MissingColumnFailsLoad ==
    (processor # NoProcessor /\ source.exists /\ ~(Columns \subseteq source.columns)) =>
        processor.state = "failed"

\* C5: once the processor is constructed, process_email returns an Order for
\* every email: no step of the pipeline raises.
C5_ProcessEmailNeverRaises ==
    ret.op = "process_email" => ret.out.raised = ""

\* C6: validate_against_catalog(absent, q) returns is_valid = false with the
\* single issue "Product not found in catalog", and no MOQ or stock issue.
C6_AbsentProductNotFound ==
    (CalledValidate /\ call.product = None) =>
        /\ ret.out.raised = ""
        /\ ~ret.out.val.is_valid
        /\ ret.out.val.issues = <<MsgNotFound>>
        /\ ~SomeIssueContains(ret.out.val.issues, PhraseBelowMOQ)
        /\ ~SomeIssueContains(ret.out.val.issues, PhraseExceedsStock)

\* C7: validate_against_catalog("INVALID-123", 10), a SKU string that is not in
\* the catalog, returns normally with is_valid false and a non-empty issue list
\* whose first issue contains "not found in catalog".
C7_InvalidSkuString ==
    (CalledValidate /\ call.product = PyStr(SkuInvalid) /\ call.quantity = 10) =>
        /\ ret.out.raised = ""
        /\ ~ret.out.val.is_valid
        /\ Len(ret.out.val.issues) > 0
        /\ contains(ret.out.val.issues[1], PhraseNotFound)

\* no line of the raw text holds a digit
NoDigitText(text) == \A i \in 1..Len(text) : ~isdigit(text[i])

\* C8: for a raw text without a digit, process_email returns an Order with no
\* item, total_confidence_score 0.0 and an empty validation_issues list.
C8_NoDigitsEmptyOrder ==
    (ret.op = "process_email" /\ NoDigitText(call.email.raw_content)) =>
        /\ ret.out.raised = ""
        /\ ret.out.val.items = <<>>
        /\ ret.out.val.total_confidence_score = 0
        /\ ret.out.val.validation_issues = PyList(<<>>)

\* a text of two lines without a digit, one of them naming a product, has been processed
C8_Witness ==
    /\ ret.op = "process_email"
    /\ call.email.raw_content = LineNoDigit \o <<"\n">> \o LineNotes
    /\ ret.out.raised = ""
    /\ ret.out.val.items = <<>>

\* C9: the Order that process_email returns carries what the extractors found
\* in the same raw text: the delivery details (address and date) whenever an
\* address or a date was extracted, the notes whenever a note was extracted.
\* The details are those of some answer the date library may have given.
C9_OrderCarriesDeliveryAndNotes ==
    ReturnedOrder =>
        LET o == ret.out.val
            carried(details) ==
                (details.address # None \/ details.date # None) =>
                    ("delivery_details" \in DOMAIN o /\ o["delivery_details"] = details)
            notes == extract_customer_notes(call.email.raw_content)
        IN  /\ \E lib \in Dateparsers(call.email.raw_content) :
                  carried(extract_delivery_details(call.email.raw_content, lib))
            /\ notes # None =>
                  ("notes" \in DOMAIN o /\ o["notes"] = notes)

\* the rows of the loaded catalog whose column col equals the phrase, case-insensitively
RowsEqual(col, phrase) ==
    {i \in 1..Len(processor.catalog.rows) :
        lower(processor.catalog.rows[i][col]) = lower(phrase)}

\* the similarity of the phrase to every name and code of the catalog is below 0.8
FarFromCatalog(phrase) ==
    \A i \in 1..Len(processor.catalog.rows) :
        /\ ~ratio_ge(processor.catalog.rows[i]["Product_Name"], phrase, 8)
        /\ ~ratio_ge(processor.catalog.rows[i]["Product_Code"], phrase, 8)

First(S) == CHOOSE i \in S : \A k \in S : i <= k

\* find_product was called on a catalog with the name and code columns
FoundInNamedCatalog ==
    /\ CalledFindProduct
    /\ {"Product_Name", "Product_Code"} \subseteq processor.catalog.columns

\* C10 as claimed: find_product(p.name) and find_product(p.code) return p for
\* every row p of the catalog, matching case-insensitively, also when rows share
\* a name or a code is another row's name; a phrase whose similarity to every
\* name and code is below 0.8 returns absent.
C10_FindProductReturnsEveryRow ==
    FoundInNamedCatalog =>
        /\ \A i \in RowsEqual("Product_Name", call.extracted_name)
                    \cup RowsEqual("Product_Code", call.extracted_name) :
              ret.out = Ok(PyDict(processor.catalog.rows[i]))
        /\ FarFromCatalog(call.extracted_name) => ret.out = Ok(None)

\* C10 amended: find_product returns the first row whose name equals the phrase
\* case-insensitively; without such a row, the first row whose code equals it
\* case-insensitively; a phrase that equals no name and no code and whose
\* similarity to every name and code is below 0.8 returns absent.
C10_FindProductFirstMatch ==
    FoundInNamedCatalog =>
        LET byName == RowsEqual("Product_Name", call.extracted_name)
            byCode == RowsEqual("Product_Code", call.extracted_name)
        IN  /\ byName # {} => ret.out = Ok(PyDict(processor.catalog.rows[First(byName)]))
            /\ (byName = {} /\ byCode # {}) =>
                  ret.out = Ok(PyDict(processor.catalog.rows[First(byCode)]))
            /\ (byName = {} /\ byCode = {} /\ FarFromCatalog(call.extracted_name)) =>
                  ret.out = Ok(None)

\* the name of two rows has been looked up, and the first of them was returned
C10_Witness ==
    /\ FoundInNamedCatalog
    /\ Cardinality(RowsEqual("Product_Name", call.extracted_name)) = 2
    /\ ret.out = Ok(PyDict(processor.catalog.rows[1]))

\* some name or code of the loaded catalog has a similarity of 0.6 or more to the phrase
SimilarInCatalog(phrase) ==
    \E i \in 1..Len(processor.catalog.rows) :
        \/ ratio_ge(processor.catalog.rows[i]["Product_Name"], phrase, 6)
        \/ ratio_ge(processor.catalog.rows[i]["Product_Code"], phrase, 6)

\* validate_against_catalog was called with a phrase that is no name and no
\* code of the catalog, so that its product is absent
ValidatedAbsentPhrase ==
    /\ CalledValidate
    /\ {"Product_Name", "Product_Code"} \subseteq processor.catalog.columns
    /\ call.product.type = "str"
    /\ RowsEqual("Product_Name", call.product.s) = {}
    /\ RowsEqual("Product_Code", call.product.s) = {}

\* C12: when the product is absent and some catalog name or code has a
\* similarity of 0.6 or more to the unmatched phrase, validate_against_catalog
\* returns the not-found issue with a non-empty list of at most 2 suggestions.
C12_AbsentProductSuggestions ==
    (ValidatedAbsentPhrase /\ SimilarInCatalog(call.product.s)) =>
        /\ ret.out.raised = ""
        /\ ret.out.val.issues = <<MsgNotFound>>
        /\ ret.out.val.suggestions # <<>>
        /\ Len(ret.out.val.suggestions) <= 2

\* the entries that extract_products_and_quantities returns for the processed email
ExtractedEntries == extract_products_and_quantities(processor.catalog, call.email.raw_content).val

\* the entries whose confidence is 0.7 or more, in their order
ConfidentEntries(entries) ==
    LET confident(entry) == entry.confidence >= 7
    IN  SelectSeq(entries, confident)

\* the items are built, one for one and in order, from the kept entries, each of
\* which has a catalog product, and no item carries the not-found issue
ItemsOfEntries(items, kept) ==
    /\ Len(items) = Len(kept)
    /\ \A k \in 1..Len(kept) :
          /\ kept[k].product # None
          /\ items[k].sku = kept[k].product.d["Product_Code"]
          /\ items[k].quantity = kept[k].quantity
          /\ items[k].confidence_score = kept[k].confidence
          /\ items[k].validation_issues # None =>
                ~SomeIssueContains(items[k].validation_issues.l, PhraseNotFound)

\* an entry is unmatched (confidence 0.5, no product) or matched (confidence 1.0)
EntriesMatchedOrNot(entries) ==
    \A k \in 1..Len(entries) :
        /\ entries[k].confidence \in {5, 10}
        /\ entries[k].confidence = 5 <=> entries[k].product = None

\* C13: the items of the Order that process_email returns are exactly the
\* entries of extract_products_and_quantities whose confidence is 0.7 or more,
\* in line order: the unmatched entries (confidence 0.5, no product) are left
\* out, every item has a catalog product and none carries the issue
\* "Product not found in catalog".
C13_ItemsAreConfidentEntries ==
    ReturnedOrder =>
        LET holds_for(entries) ==
                /\ EntriesMatchedOrNot(entries)
                /\ ItemsOfEntries(ret.out.val.items, ConfidentEntries(entries))
        IN  holds_for(ExtractedEntries)

\* an Order of one item has been returned for a text whose first line gave an
\* unmatched entry and whose second line gave a matched one
C13_Witness ==
    /\ ReturnedOrder
    /\ LET one_of_two(entries) ==
               /\ Len(entries) = 2
               /\ entries[1].product = None
               /\ entries[2].product # None
               /\ Len(ret.out.val.items) = 1
               /\ ret.out.val.items[1].quantity = entries[2].quantity
       IN  one_of_two(ExtractedEntries)

\* the issue lists of the items, one after the other in item order
RECURSIVE IssuesInItemOrder(_)
IssuesInItemOrder(items) ==
    IF items = <<>> THEN <<>>
    ELSE (IF items[1].validation_issues = None THEN <<>> ELSE items[1].validation_issues.l)
         \o IssuesInItemOrder(Tail(items))

\* the item is the one of the entry: the code and the price of its product, its
\* quantity, and the issues and suggestions of the two checks when one of them
\* fails, none of either when both pass
ItemOfEntry(item, entry) ==
    LET p == entry.product.d
        below == entry.quantity < p["Min_Order_Quantity"]
        over == entry.quantity > p["Available_in_Stock"]
    IN  /\ item.sku = p["Product_Code"]
        /\ item.quantity = entry.quantity
        /\ item.price = p["Price"]
        /\ (~below /\ ~over) =>
              /\ item.validation_issues = None
              /\ item.suggested_replacements = None
        /\ (below \/ over) =>
              /\ item.validation_issues =
                    PyList((IF below
                            THEN <<MsgBelowMOQ(entry.quantity, p["Min_Order_Quantity"], p["Product_Name"])>>
                            ELSE <<>>)
                           \o (IF over
                               THEN <<MsgExceedsStock(entry.quantity, p["Available_in_Stock"], p["Product_Name"])>>
                               ELSE <<>>))
              /\ item.suggested_replacements =
                    PyList((IF below THEN <<MsgIncrease(p["Min_Order_Quantity"])>> ELSE <<>>)
                           \o (IF over THEN <<MsgReduce(p["Available_in_Stock"])>> ELSE <<>>))

\* the email is "Need 10 pcs of SuperWidget" and the first row of the catalog is
\* the SuperWidget with MOQ 20
ScenarioB ==
    /\ ret.op = "process_email"
    /\ call.email.raw_content = LineScenarioB
    /\ Columns \subseteq source.columns
    /\ Len(source.rows) > 0
    /\ \E i \in 1..Len(source.rows) :
          /\ source.rows[i]["Product_Name"] = NameSuperWidget
          /\ source.rows[i]["Min_Order_Quantity"] = 20
          /\ \A k \in 1..(i - 1) : source.rows[k]["Product_Name"] # NameSuperWidget

\* C14: every item of a returned Order has the code and the price of the
\* product of its entry and the extracted quantity, and carries issue and
\* suggestion lists exactly when the validation failed; the Order's
\* validation_issues are the items' issues in item order; and "Need 10 pcs of
\* SuperWidget" (MOQ 20) gives one item of quantity 10 with the below-MOQ issue
\* and the suggestion "Increase quantity to 20".
C14_ItemsCarryValidation ==
    /\ ReturnedOrder =>
          LET built_from(items, kept) ==
                  /\ Len(items) = Len(kept)
                  /\ \A k \in 1..Len(kept) : ItemOfEntry(items[k], kept[k])
                  /\ ret.out.val.validation_issues = PyList(IssuesInItemOrder(items))
          IN  built_from(ret.out.val.items, ConfidentEntries(ExtractedEntries))
    /\ ScenarioB =>
          /\ ret.out.raised = ""
          /\ Len(ret.out.val.items) = 1
          /\ ret.out.val.items[1].quantity = 10
          /\ ret.out.val.items[1].confidence_score = 10
          /\ ret.out.val.items[1].validation_issues = PyList(<<MsgBelowMOQ(10, 20, NameSuperWidget)>>)
          /\ ret.out.val.items[1].suggested_replacements = PyList(<<MsgIncrease(20)>>)

\* "Need 10 pcs of SuperWidget" has given an Order whose item carries an issue,
\* which is also the issue of the Order
C14_Witness ==
    /\ ScenarioB
    /\ ret.out.raised = ""
    /\ Len(ret.out.val.items) = 1
    /\ ret.out.val.items[1].validation_issues # None
    /\ ret.out.val.validation_issues = ret.out.val.items[1].validation_issues

\* the candidate phrase of a line: the digit runs removed, the separators trimmed
CandidatePhrase(line) ==
    stripchars(remove_digits(line), {" ", "-", ":", "x", "*", ".", ","})

\* the lines of the text that hold a number and whose lowercased candidate
\* phrase contains no phrase of the noise list
ProductLines(text) ==
    LET not_noise(lines) ==
            {k \in 1..Len(lines) :
                /\ first_digit(lines[k]) # 0
                /\ ~any_in(NON_PRODUCT_PHRASES, lower(CandidatePhrase(lines[k])))}
    IN  not_noise(splitlines(text))

\* C15: extract_products_and_quantities discards every line whose lowercased
\* candidate phrase contains a phrase of the noise list, matched or not: it
\* returns one entry for each line that holds a number and has a noise-free
\* candidate phrase, and none for any other line.
C15_NoiseLinesDiscarded ==
    ret.op = "process_email" =>
        Len(ExtractedEntries) = Cardinality(ProductLines(call.email.raw_content))

\* extract_delivery_details has returned
ExtractedDetails == ret.op = "extract_delivery_details"

\* the non-empty lines of the text, stripped
DetailLines == stripped_lines(splitlines(call.text))

\* the lines that contain an address keyword
KeywordLines(lines) ==
    {i \in 1..Len(lines) : any_in(address_keywords, lower(lines[i]))}

\* the text after the first colon of the line, stripped; nothing without a colon
TextAfterColon(line) ==
    IF contains(line, <<":">>) THEN strip(From(line, find(line, <<":">>) + 1)) ELSE <<>>

\* the text after the colon is one of the keywords
IsKeyword(s) == \E k \in 1..Len(address_keywords) : lower(s) = address_keywords[k]

\* the address that the keyword line i gives: the text after its colon, else the
\* next line, joined to the line after it when that one looks like an address;
\* None when there is no next line
AddressOfKeywordLine(lines, i) ==
    LET decided(after) ==
            IF after # <<>> /\ ~IsKeyword(after) THEN PyStr(after)
            ELSE IF i + 1 > Len(lines) THEN None
            ELSE IF i + 2 <= Len(lines) /\ looks_like_address(lines[i + 2])
                 THEN PyStr(lines[i + 1] \o <<",", " ">> \o lines[i + 2])
            ELSE PyStr(lines[i + 1])
    IN  decided(TextAfterColon(lines[i]))

\* C16: the first line that contains an address keyword decides the address,
\* before any keyword-less line: the text after its first colon when that is
\* not empty and not the keyword, otherwise (nothing after the colon, or no
\* colon) the next non-empty line, joined with ", " to the line after it when
\* that line looks like an address; "Ship to: 123 Main Street, Springfield"
\* gives "123 Main Street, Springfield".
C16_KeywordLineAddress ==
    ExtractedDetails =>
        LET decided_by(lines, keyword_lines) ==
                keyword_lines # {} =>
                    (AddressOfKeywordLine(lines, First(keyword_lines)) # None =>
                        ret.out.val.address = AddressOfKeywordLine(lines, First(keyword_lines)))
        IN  decided_by(DetailLines, KeywordLines(DetailLines))

=============================================================================
